---- MODULE Spec2Model ----
(***************************************************************************)
(* Model of tailwind.config.ts: the evaluation of the module (the two      *)
(* shared color constants, the extraColors object literal, the exported    *)
(* configuration with its two RegExp safelist patterns) and the use of the *)
(* exported patterns on class names.                                       *)
(*                                                                         *)
(* Strings are TLA+ strings; Char(s, i) is the i-th character.  A          *)
(* JavaScript object is the sequence of its own properties in insertion    *)
(* order, each a record [key, value] (no label of the table is an integer  *)
(* index, so Object.keys returns the keys in insertion order).             *)
(***************************************************************************)
EXTENDS Integers, Sequences, FiniteSets, TLC

VARIABLES pc, idx, src, scope, extraColors, config, probe, textHit, bgHit

vars == <<pc, idx, src, scope, extraColors, config, probe, textHit, bgHit>>

\* ------------------------------------------------------------ strings

Char(s, i) == SubSeq(s, i, i)

RECURSIVE Join(_, _)
\* Array.prototype.join: the elements separated by sep.
Join(seq, sep) ==
    IF Len(seq) = 0 THEN ""
    ELSE IF Len(seq) = 1 THEN seq[1]
    ELSE seq[1] \o sep \o Join(Tail(seq), sep)

RECURSIVE Cook(_)
\* The cooked value of a template literal's raw text: a backslash before a
\* character that starts no escape sequence yields that character.
Cook(raw) ==
    IF Len(raw) = 0 THEN ""
    ELSE IF Char(raw, 1) = "\\" /\ Len(raw) >= 2
         THEN Char(raw, 2) \o Cook(SubSeq(raw, 3, Len(raw)))
         ELSE Char(raw, 1) \o Cook(Tail(raw))

\* ------------------------------------------------------------ the source

\* An initializer expression: a string literal or a reference to a binding.
Lit(text) == [kind |-> "lit", text |-> text]
Ref(name) == [kind |-> "ref", text |-> name]

\* The literals of the two shared constants as written.
SharedLiterals == [TAG_PURPLE |-> "#7B61FF", TAG_CYAN |-> "#0CAFC6"]

\* The entries of the object literal, first block: the entity kinds.
KindEntries ==
    << [label |-> "Function",  init |-> Lit("#056CF0")],
       [label |-> "Variable",  init |-> Lit("#7E57C0")],
       [label |-> "Class",     init |-> Lit("#20B44B")],
       [label |-> "Enum",      init |-> Lit("#22ABB0")],
       [label |-> "Interface", init |-> Lit("#D2A064")],
       [label |-> "TypeAlias", init |-> Lit("#A4478C")],
       [label |-> "Namespace", init |-> Lit("#D25646")] >>

\* The entries of the object literal, second block: the tags.
TagEntries ==
    << [label |-> "new",         init |-> Ref("TAG_PURPLE")],
       [label |-> "abstract",    init |-> Ref("TAG_CYAN")],
       [label |-> "deprecated",  init |-> Lit("#DC2626")],
       [label |-> "writeonly",   init |-> Ref("TAG_PURPLE")],
       [label |-> "readonly",    init |-> Ref("TAG_PURPLE")],
       [label |-> "protected",   init |-> Ref("TAG_PURPLE")],
       [label |-> "private",     init |-> Ref("TAG_PURPLE")],
       [label |-> "optional",    init |-> Ref("TAG_CYAN")],
       [label |-> "permissions", init |-> Ref("TAG_CYAN")],
       [label |-> "other",       init |-> Lit("#57534E")] >>

\* Mutants of the table (a hand edit gone wrong).
ExtraColorsSourceDuplicate ==
    KindEntries \o <<[label |-> "Class", init |-> Lit("#20B44C")]>> \o TagEntries
ExtraColorsSourceBadHex ==
    KindEntries \o <<[label |-> "unstable", init |-> Lit("#DC262")]>> \o TagEntries
ExtraColorsSourceMetaLabel ==
    KindEntries \o <<[label |-> "Type.Alias", init |-> Lit("#A4478C")]>> \o TagEntries
ExtraColorsSourceInlined ==
    KindEntries \o <<[label |-> "new", init |-> Ref("TAG_PURPLE")],
                     [label |-> "abstract", init |-> Ref("TAG_CYAN")],
                     [label |-> "deprecated", init |-> Lit("#DC2626")],
                     [label |-> "writeonly", init |-> Lit("#7B61FF")]>>
                \o SubSeq(TagEntries, 5, Len(TagEntries))

\* The object literal assigned to extraColors.
ExtraColorsSource == KindEntries \o TagEntries

Labels == {ExtraColorsSource[i].label : i \in 1..Len(ExtraColorsSource)}

\* The labels whose initializer is a reference to the binding `name`.
AliasedTo(name) ==
    {ExtraColorsSource[i].label : i \in
        {j \in 1..Len(ExtraColorsSource) :
            ExtraColorsSource[j].init = Ref(name)}}

\* ------------------------------------------------------------ objects

Uninitialized == "<uninitialized>"

\* Evaluation of an initializer where the constants were pasted in by hand.
EvalPasted(expr, env) ==
    IF expr.kind = "lit" THEN expr.text ELSE SharedLiterals[expr.text]

\* Evaluation of an initializer in the module scope env.
Eval(expr, env) ==
    IF expr.kind = "lit" THEN expr.text ELSE env[expr.text]

HasKey(obj, k) == \E i \in 1..Len(obj) : obj[i].key = k

\* Property definition of an object literal: a repeated key keeps its place
\* and takes the later value.
DefineProperty(obj, k, v) ==
    IF HasKey(obj, k)
    THEN [i \in 1..Len(obj) |->
            IF obj[i].key = k THEN [key |-> k, value |-> v] ELSE obj[i]]
    ELSE Append(obj, [key |-> k, value |-> v])

Get(obj, k) == obj[CHOOSE i \in 1..Len(obj) : obj[i].key = k].value

\* Object.keys with the last own property left out.
ObjectKeysShort(obj) == [i \in 1..(Len(obj) - 1) |-> obj[i].key]

\* Object.keys: the own keys in insertion order.
ObjectKeys(obj) == [i \in 1..Len(obj) |-> obj[i].key]

RECURSIVE EvalTable(_, _, _)
\* The object an object literal with these entries evaluates to.
EvalTable(entries, env, obj) ==
    IF Len(entries) = 0 THEN obj
    ELSE EvalTable(Tail(entries), env,
                   DefineProperty(obj, Head(entries).label,
                                  Eval(Head(entries).init, env)))

\* ------------------------------------------------------------ RegExp

RECURSIVE Escaped(_, _)
\* The character at m follows a backslash that is not itself escaped.
Escaped(re, m) ==
    m > 1 /\ Char(re, m - 1) = "\\" /\ ~Escaped(re, m - 1)

\* The character at m is the syntax character c.
Syntax(re, m, c) == Char(re, m) = c /\ ~Escaped(re, m)

\* The number of groups open at k.
DepthAt(re, k) ==
    Cardinality({m \in 1..(k - 1) : Syntax(re, m, "(")})
    - Cardinality({m \in 1..(k - 1) : Syntax(re, m, ")")})

RECURSIVE EscapeRegExpPattern(_, _)
\* The source property of a RegExp built from pattern text p, from place k
\* on: every '/' that is not already escaped is written "\/" (the patterns
\* here hold no character class and no line terminator).
EscapeRegExpPattern(p, k) ==
    LET slashes == {m \in k..Len(p) : Syntax(p, m, "/")} IN
    IF slashes = {} THEN SubSeq(p, k, Len(p))
    ELSE LET s == CHOOSE m \in slashes : \A x \in slashes : m <= x
         IN SubSeq(p, k, s - 1) \o "\\/" \o EscapeRegExpPattern(p, s + 1)

\* The source property: "(?:)" for the empty pattern.
SourceOf(p) == IF Len(p) = 0 THEN "(?:)" ELSE EscapeRegExpPattern(p, 1)

\* new RegExp(pattern), no flags: the RegExp with its source property, the
\* nesting depth of each place of the source and the places of its '|' and
\* ')'.
NewRegExp(pattern) ==
    LET source == SourceOf(pattern) IN
    [source |-> source,
     flags  |-> "",
     depth  |-> [k \in 1..Len(source) |-> DepthAt(source, k)],
     bars   |-> {k \in 1..Len(source) : Syntax(source, k, "|")},
     closes |-> {k \in 1..Len(source) : Syntax(source, k, ")")}]

\* The alternatives of the disjunction source[i..j] at depth d, each a range
\* <<from, to>>.
Alternatives(rx, i, j, d) ==
    LET B == {k \in rx.bars : i <= k /\ k <= j /\ rx.depth[k] = d}
                \cup {i - 1, j + 1}
    IN {<<ab[1] + 1, ab[2] - 1>> :
          ab \in {xy \in B \X B :
                    /\ xy[1] < xy[2]
                    /\ ~\E m \in B : xy[1] < m /\ m < xy[2]}}

\* The place of the ')' that closes the group opened at k.
CloseParen(rx, k) ==
    LET S == {m \in rx.closes : m > k /\ rx.depth[m] = rx.depth[k] + 1}
    IN CHOOSE m \in S : \A x \in S : m <= x

\* The positions after one character equal to c (any character when any).
Advance(s, P, c, any) ==
    {p + 1 : p \in {q \in P : q < Len(s) /\ (any \/ Char(s, q + 1) = c)}}

RECURSIVE MatchDisj(_, _, _, _, _, _)
RECURSIVE MatchAlt(_, _, _, _, _)
RECURSIVE MatchAtom(_, _, _, _, _)
RECURSIVE Star(_, _, _, _, _)

\* The positions of s where a match of the disjunction source[i..j] that
\* starts at a position of P can end.
MatchDisj(rx, i, j, d, s, P) ==
    IF P = {} THEN {}
    ELSE UNION {MatchAlt(rx, r[1], r[2], s, P) :
                    r \in Alternatives(rx, i, j, d)}

\* The same for the atom source[k..e]: a group, an escape, '.', or a
\* character.
MatchAtom(rx, k, e, s, P) ==
    LET c == Char(rx.source, k) IN
    IF c = "("
    THEN IF SubSeq(rx.source, k + 1, k + 2) = "?:"
         THEN MatchDisj(rx, k + 3, e - 1, rx.depth[k] + 1, s, P)
         ELSE MatchDisj(rx, k + 1, e - 1, rx.depth[k] + 1, s, P)
    ELSE IF c = "\\" THEN Advance(s, P, Char(rx.source, e), FALSE)
    ELSE IF c = "." THEN Advance(s, P, c, TRUE)
    ELSE Advance(s, P, c, FALSE)

\* Zero or more matches of the atom source[k..e].
Star(rx, k, e, s, P) ==
    LET Q == P \cup MatchAtom(rx, k, e, s, P) IN
    IF Q = P THEN P ELSE Star(rx, k, e, s, Q)

\* The same for the alternative source[k..j]: its terms one after the other.
MatchAlt(rx, k, j, s, P) ==
    IF k > j \/ P = {} THEN P
    ELSE LET c == Char(rx.source, k)
             e == IF c = "(" THEN CloseParen(rx, k)
                  ELSE IF c = "\\" THEN k + 1
                  ELSE k
             q == IF e < j THEN Char(rx.source, e + 1) ELSE ""
         IN
         IF c = "^" THEN MatchAlt(rx, k + 1, j, s, P \cap {0})
         ELSE IF c = "$" THEN MatchAlt(rx, k + 1, j, s, P \cap {Len(s)})
         ELSE IF q = "?"
              THEN MatchAlt(rx, e + 2, j, s, P \cup MatchAtom(rx, k, e, s, P))
         ELSE IF q = "*"
              THEN MatchAlt(rx, e + 2, j, s, Star(rx, k, e, s, P))
         ELSE IF q = "+"
              THEN MatchAlt(rx, e + 2, j, s,
                            Star(rx, k, e, s, MatchAtom(rx, k, e, s, P)))
         ELSE MatchAlt(rx, e + 1, j, s, MatchAtom(rx, k, e, s, P))

\* RegExp.prototype.test: some substring of s matches the pattern.
Test(rx, s) ==
    MatchDisj(rx, 1, Len(rx.source), 0, s, 0..Len(s)) # {}

\* ------------------------------------------------------------ the export

ContentGlobs == <<"./src/html/**/*.rs", "./src/html/templates/*.hbs">>

\* The kinds as a list kept by hand beside the table.
HandListedKinds ==
    <<"Function", "Variable", "Class", "Enum", "Interface", "TypeAlias",
      "Namespace">>

\* Mutants of the pattern templates.
TextPatternSourceUnanchored(colors) ==
    Cook("^text-(") \o Join(ObjectKeys(colors), "|") \o Cook(")")
BgPatternSourceByHand(colors) ==
    Cook("^bg-(") \o Join(HandListedKinds, "|") \o Cook(")\\/15$")

\* The template literal of the first pattern.
TextPatternSource(colors) ==
    Cook("^text-(") \o Join(ObjectKeys(colors), "|") \o Cook(")$")

\* The template literal of the second pattern.
BgPatternSource(colors) ==
    Cook("^bg-(") \o Join(ObjectKeys(colors), "|") \o Cook(")\\/15$")

\* The exported value without its mode selector.
ConfigValueNoMode(colors) ==
    [content  |-> ContentGlobs,
     safelist |-> << [pattern |-> NewRegExp(TextPatternSource(colors))],
                     [pattern |-> NewRegExp(BgPatternSource(colors))] >>,
     theme    |-> [extend |-> [colors |-> colors]]]

\* The exported value.
ConfigValue(colors) ==
    [content  |-> ContentGlobs,
     safelist |-> << [pattern |-> NewRegExp(TextPatternSource(colors))],
                     [pattern |-> NewRegExp(BgPatternSource(colors))] >>,
     theme    |-> [extend |-> [colors |-> colors]],
     darkMode |-> "class"]

NoConfig == <<>>

\* ------------------------------------------------------------ inputs

MaxPad == 1

PadChars == {"x", "2", "0", "$"}

RECURSIVE PadsOfLen(_)
PadsOfLen(n) ==
    IF n = 0 THEN {""}
    ELSE {p \o c : p \in PadsOfLen(n - 1), c \in PadChars}

AllPads == UNION {PadsOfLen(n) : n \in 0..MaxPad}

\* Pairs <<before, after>> of paddings of at most MaxPad characters in all.
Paddings == {pp \in AllPads \X AllPads : Len(pp[1]) + Len(pp[2]) <= MaxPad}

LowerMap ==
    [A |-> "a", B |-> "b", C |-> "c", D |-> "d", E |-> "e", F |-> "f",
     G |-> "g", H |-> "h", I |-> "i", J |-> "j", K |-> "k", L |-> "l",
     M |-> "m", N |-> "n", O |-> "o", P |-> "p", Q |-> "q", R |-> "r",
     S |-> "s", T |-> "t", U |-> "u", V |-> "v", W |-> "w", X |-> "x",
     Y |-> "y", Z |-> "z"]

RECURSIVE ToLower(_)
ToLower(s) ==
    IF Len(s) = 0 THEN ""
    ELSE (IF Char(s, 1) \in DOMAIN LowerMap THEN LowerMap[Char(s, 1)]
          ELSE Char(s, 1)) \o ToLower(Tail(s))

\* The label parts of the class names tried: the labels, their lower-case
\* forms, each label cut by a character, two labels in a row with and
\* without a bar, and no label.
ProbeLabels ==
    Labels
    \cup {ToLower(l) : l \in Labels}
    \cup {SubSeq(l, 1, Len(l) - 1) : l \in Labels}
    \cup {ExtraColorsSource[i].label \o "|" \o ExtraColorsSource[i + 1].label :
             i \in 1..(Len(ExtraColorsSource) - 1)}
    \cup {ExtraColorsSource[i].label \o ExtraColorsSource[i + 1].label :
             i \in 1..(Len(ExtraColorsSource) - 1)}
    \cup {""}

ProbeStems == {"text-", "bg-"}

ProbeTails == {"", "/15"}

\* The class names tried against the safelist.
ProbeStrings ==
    {pp[1] \o stem \o l \o tail \o pp[2] :
        pp \in Paddings, stem \in ProbeStems, l \in ProbeLabels,
        tail \in ProbeTails}

\* The values tried for a shared constant.
EditColors == {"#7B61FF", "#0CAFC6", "#112233", "ABCDEF"}

\* ------------------------------------------------------------ the module

Init ==
    /\ pc = "TAG_PURPLE"
    /\ idx = 1
    /\ src = SharedLiterals
    /\ scope = [TAG_PURPLE |-> Uninitialized, TAG_CYAN |-> Uninitialized]
    /\ extraColors = <<>>
    /\ config = NoConfig
    /\ probe = ""
    /\ textHit = FALSE
    /\ bgHit = FALSE

\* The module with other literals for the two shared constants.
EditInit ==
    /\ pc = "TAG_PURPLE"
    /\ idx = 1
    /\ src \in [TAG_PURPLE : EditColors, TAG_CYAN : EditColors]
    /\ scope = [TAG_PURPLE |-> Uninitialized, TAG_CYAN |-> Uninitialized]
    /\ extraColors = <<>>
    /\ config = NoConfig
    /\ probe = ""
    /\ textHit = FALSE
    /\ bgHit = FALSE

\* const TAG_PURPLE = <literal>;
DeclareTagPurple ==
    /\ pc = "TAG_PURPLE"
    /\ scope' = [scope EXCEPT !.TAG_PURPLE = src.TAG_PURPLE]
    /\ pc' = "TAG_CYAN"
    /\ UNCHANGED <<idx, src, extraColors, config, probe, textHit, bgHit>>

\* const TAG_CYAN = <literal>;
DeclareTagCyan ==
    /\ pc = "TAG_CYAN"
    /\ scope' = [scope EXCEPT !.TAG_CYAN = src.TAG_CYAN]
    /\ pc' = "extraColors"
    /\ UNCHANGED <<idx, src, extraColors, config, probe, textHit, bgHit>>

\* One entry of the object literal: its initializer is evaluated and the
\* property defined.
DefineEntry ==
    /\ pc = "extraColors"
    /\ idx <= Len(ExtraColorsSource)
    /\ extraColors' = DefineProperty(extraColors, ExtraColorsSource[idx].label,
                                     Eval(ExtraColorsSource[idx].init, scope))
    /\ idx' = idx + 1
    /\ pc' = IF idx = Len(ExtraColorsSource) THEN "export" ELSE "extraColors"
    /\ UNCHANGED <<src, scope, config, probe, textHit, bgHit>>

\* export default { ... } as Config;
ExportDefault ==
    /\ pc = "export"
    /\ config' = ConfigValue(extraColors)
    /\ pc' = "loaded"
    /\ UNCHANGED <<idx, src, scope, extraColors, probe, textHit, bgHit>>

\* A class name is tried against both safelist patterns.
Probe ==
    /\ pc = "loaded"
    /\ \E s \in ProbeStrings :
        /\ probe' = s
        /\ textHit' = Test(config.safelist[1].pattern, s)
        /\ bgHit' = Test(config.safelist[2].pattern, s)
    /\ pc' = "tested"
    /\ UNCHANGED <<idx, src, scope, extraColors, config>>

\* The result is taken and the next class name awaited.
Continue ==
    /\ pc = "tested"
    /\ pc' = "loaded"
    /\ probe' = ""
    /\ textHit' = FALSE
    /\ bgHit' = FALSE
    /\ UNCHANGED <<idx, src, scope, extraColors, config>>

Load == DeclareTagPurple \/ DeclareTagCyan \/ DefineEntry \/ ExportDefault

Next == Load \/ Probe \/ Continue

Spec == Init /\ [][Next]_vars

EditSpec == EditInit /\ [][Load]_vars

\* ------------------------------------------------------------ properties

Loaded == pc \in {"loaded", "tested"}

TableBuilt == pc \in {"export", "loaded", "tested"}

KeySet(obj) == {obj[i].key : i \in 1..Len(obj)}

TextPattern == config.safelist[1].pattern

BgPattern == config.safelist[2].pattern

\* s is stem, then something, then tail; Middle is the something.
HasForm(s, stem, tail) ==
    /\ Len(s) >= Len(stem) + Len(tail)
    /\ SubSeq(s, 1, Len(stem)) = stem
    /\ SubSeq(s, Len(s) - Len(tail) + 1, Len(s)) = tail

Middle(s, stem, tail) == SubSeq(s, Len(stem) + 1, Len(s) - Len(tail))

UpperLetters == DOMAIN LowerMap

AsciiLetters == UpperLetters \cup {LowerMap[u] : u \in UpperLetters}

HexDigits ==
    {"0", "1", "2", "3", "4", "5", "6", "7", "8", "9",
     "a", "b", "c", "d", "e", "f", "A", "B", "C", "D", "E", "F"}

\* An optional '#', then exactly six hexadecimal digits.
IsHexColor(s) ==
    LET digits == IF Len(s) > 0 /\ Char(s, 1) = "#" THEN Tail(s) ELSE s
    IN /\ Len(digits) = 6
       /\ \A i \in 1..6 : Char(digits, i) \in HexDigits

\* The alternatives of the first group of a pattern, as ranges.
GroupAlternatives(rx) ==
    LET opens == {k \in 1..Len(rx.source) : Syntax(rx.source, k, "(")}
        open == CHOOSE k \in opens : \A x \in opens : k <= x
    IN Alternatives(rx, open + 1, CloseParen(rx, open) - 1, rx.depth[open] + 1)

\* The alternative at range r of rx matches all of x.
AlternativeMatches(rx, r, x) == Len(x) \in MatchAlt(rx, r[1], r[2], x, {0})

\* The table as the module with the literals as written evaluates it.
OriginalColors == EvalTable(ExtraColorsSource, SharedLiterals, <<>>)

\* C1: once the configuration is exported, for every label L of the color
\* table the text- pattern of the safelist matches "text-L" and the bg-
\* pattern matches "bg-L/15"; a class name of either form that is tried is
\* reported as a hit.
C1_Coverage ==
    /\ pc = "loaded" =>
         \A i \in 1..Len(extraColors) :
            /\ \E n \in 1..Len(config.safelist) :
                 Test(config.safelist[n].pattern, "text-" \o extraColors[i].key)
            /\ \E n \in 1..Len(config.safelist) :
                 Test(config.safelist[n].pattern,
                      "bg-" \o extraColors[i].key \o "/15")
    /\ pc = "tested" =>
         \A L \in KeySet(extraColors) :
            /\ probe = "text-" \o L => textHit
            /\ probe = "bg-" \o L \o "/15" => bgHit

C1_Witness ==
    pc = "tested" /\ probe = "bg-permissions/15" /\ bgHit

\* C2: the text- pattern matches a class name only if it is exactly "text-"
\* followed by one label of the table, and the bg- pattern only if it is
\* exactly "bg-", one label, "/15"; so "text-Function" matches and
\* "text-Function2", "xtext-Function", "text-function", "bg-Function" and
\* "bg-Function/150" do not.
C2_ExactLabel ==
    pc = "tested" =>
        /\ textHit => \E L \in KeySet(extraColors) : probe = "text-" \o L
        /\ bgHit => \E L \in KeySet(extraColors) : probe = "bg-" \o L \o "/15"
        /\ probe = "text-Function" => textHit
        /\ probe \in {"text-Function2", "xtext-Function", "text-function"}
              => ~textHit
        /\ probe \in {"bg-Function", "bg-Function/150"} => ~bgHit

C2_Witness ==
    pc = "tested" /\ probe = "text-Function" /\ textHit /\ ~bgHit

\* C3: from the export on, the table the configuration exposes as
\* theme.extend.colors is the color table, the alternatives of each pattern
\* are its keys, and each pattern accepts a label exactly when it is a key
\* of that table.
C3_NoDrift ==
    Loaded =>
        /\ config.theme.extend.colors = extraColors
        /\ \A n \in 1..2 :
             {SubSeq(config.safelist[n].pattern.source, r[1], r[2]) :
                 r \in GroupAlternatives(config.safelist[n].pattern)}
             = KeySet(config.theme.extend.colors)
        /\ pc = "tested" =>
             /\ HasForm(probe, "text-", "") =>
                  (textHit <=> Middle(probe, "text-", "")
                                  \in KeySet(config.theme.extend.colors))
             /\ HasForm(probe, "bg-", "/15") =>
                  (bgHit <=> Middle(probe, "bg-", "/15")
                                  \in KeySet(config.theme.extend.colors))

C3_Witness ==
    /\ pc = "tested"
    /\ probe = "bg-TypeAlias/15"
    /\ bgHit
    /\ "TypeAlias" \in KeySet(config.theme.extend.colors)

\* C4: whatever value a shared constant is given, every label whose
\* initializer refers to it has that value in the table, and every other
\* label has the value it has with the constant as written.
C4_AliasPropagation ==
    TableBuilt =>
        \A c \in DOMAIN SharedLiterals :
            LET before == EvalTable(ExtraColorsSource,
                                    [src EXCEPT ![c] = SharedLiterals[c]], <<>>)
            IN \A L \in Labels :
                 IF L \in AliasedTo(c)
                 THEN Get(extraColors, L) = src[c]
                 ELSE Get(extraColors, L) = Get(before, L)

C4_Witness ==
    /\ pc = "loaded"
    /\ src.TAG_CYAN = "#112233"
    /\ src.TAG_PURPLE = "#7B61FF"
    /\ Get(extraColors, "abstract") = "#112233"
    /\ Get(extraColors, "permissions") = "#112233"
    /\ Get(extraColors, "new") = "#7B61FF"

\* C5 as claimed: only "new" follows the purple constant and only "abstract"
\* the cyan one; every other label keeps its value whatever the constants
\* are.
C5_TwoAliases ==
    TableBuilt =>
        \A L \in Labels :
            Get(extraColors, L) =
                IF L = "new" THEN src.TAG_PURPLE
                ELSE IF L = "abstract" THEN src.TAG_CYAN
                ELSE Get(OriginalColors, L)

PurpleTags == {"new", "writeonly", "readonly", "protected", "private"}

CyanTags == {"abstract", "optional", "permissions"}

\* C5 as amended: the labels that follow a shared constant are eight, "new",
\* "writeonly", "readonly", "protected" and "private" (purple) and
\* "abstract", "optional" and "permissions" (cyan); every other label keeps
\* its value whatever the constants are.
C5_EightAliases ==
    /\ AliasedTo("TAG_PURPLE") = PurpleTags
    /\ AliasedTo("TAG_CYAN") = CyanTags
    /\ TableBuilt =>
        \A L \in Labels :
            Get(extraColors, L) =
                IF L \in PurpleTags THEN src.TAG_PURPLE
                ELSE IF L \in CyanTags THEN src.TAG_CYAN
                ELSE Get(OriginalColors, L)

C5_Witness ==
    /\ pc = "export"
    /\ src.TAG_PURPLE = "#112233"
    /\ src.TAG_CYAN = "ABCDEF"
    /\ Get(extraColors, "readonly") = "#112233"
    /\ Get(extraColors, "optional") = "ABCDEF"
    /\ Get(extraColors, "deprecated") = "#DC2626"

\* C6: every value of the color table, the shared constants resolved, is an
\* optional '#' followed by exactly six hexadecimal digits.
C6_HexValues ==
    \A i \in 1..Len(extraColors) : IsHexColor(extraColors[i].value)

C6_Witness ==
    /\ pc = "loaded"
    /\ Len(extraColors) = Len(ExtraColorsSource)
    /\ Get(extraColors, "private") = "#7B61FF"
    /\ Get(extraColors, "other") = "#57534E"

\* C7: no label is written in two entries of the table: every entry of the
\* source defines a property of its own.
C7_NoDuplicateLabels ==
    /\ \A i, j \in 1..Len(ExtraColorsSource) :
          i # j => ExtraColorsSource[i].label # ExtraColorsSource[j].label
    /\ pc = "extraColors" => Len(extraColors) = idx - 1
    /\ TableBuilt =>
          /\ Len(extraColors) = Len(ExtraColorsSource)
          /\ \A i \in 1..Len(extraColors) :
                extraColors[i].key = ExtraColorsSource[i].label

C7_Witness ==
    /\ pc = "export"
    /\ Len(extraColors) = Len(ExtraColorsSource)
    /\ Cardinality(KeySet(extraColors)) = Len(extraColors)
    /\ extraColors[Len(extraColors)].key = "other"

\* C8: the exported configuration has exactly the fields content, safelist,
\* theme and darkMode; content is two globs, safelist two pattern entries,
\* theme.extend.colors the color table, darkMode "class".
C8_Shape ==
    Loaded =>
        /\ DOMAIN config = {"content", "safelist", "theme", "darkMode"}
        /\ Len(config.content) = 2
        /\ config.content[1] = "./src/html/**/*.rs"
        /\ config.content[2] = "./src/html/templates/*.hbs"
        /\ Len(config.safelist) = 2
        /\ \A n \in 1..2 : DOMAIN config.safelist[n] = {"pattern"}
        /\ HasForm(TextPattern.source, "^text-(", ")$")
        /\ HasForm(BgPattern.source, "^bg-(", ")\\/15$")
        /\ DOMAIN config.theme = {"extend"}
        /\ DOMAIN config.theme.extend = {"colors"}
        /\ config.theme.extend.colors = extraColors
        /\ Len(extraColors) = Len(ExtraColorsSource)
        /\ config.darkMode = "class"

C8_Witness ==
    /\ pc = "loaded"
    /\ config.darkMode = "class"
    /\ Len(config.content) = 2
    /\ Len(config.safelist) = 2

\* C10: every label of the table is a non-empty run of ASCII letters, so
\* each alternative of the patterns is one label and matches that label and
\* nothing else.
C10_LetterLabels ==
    /\ \A i \in 1..Len(extraColors) :
          /\ Len(extraColors[i].key) > 0
          /\ \A k \in 1..Len(extraColors[i].key) :
                Char(extraColors[i].key, k) \in AsciiLetters
    /\ Loaded =>
          \A n \in 1..2 :
             Cardinality(GroupAlternatives(config.safelist[n].pattern))
             = Len(extraColors)
    /\ pc = "tested" =>
          \A r \in GroupAlternatives(TextPattern) :
             /\ HasForm(probe, "text-", "") =>
                  (AlternativeMatches(TextPattern, r, Middle(probe, "text-", ""))
                   <=> Middle(probe, "text-", "")
                         = SubSeq(TextPattern.source, r[1], r[2]))
             /\ SubSeq(TextPattern.source, r[1], r[2]) \in KeySet(extraColors)

C10_Witness ==
    /\ pc = "tested"
    /\ probe = "text-TypeAlias|Namespace"
    /\ ~textHit
    /\ \E r \in GroupAlternatives(TextPattern) :
          AlternativeMatches(TextPattern, r, "TypeAlias")

====
